---- MODULE Spec2Model ----
(***************************************************************************)
(* A model of CodebaseAssistant (src/code_assistant.py): the file catalog  *)
(* built by scan_codebase, the navigation cursor moved by list_directory,  *)
(* the lazy loader get_file_content and the pending-change store with      *)
(* suggest / approve / reject, over an explicit model of the filesystem.   *)
(*                                                                         *)
(* Text (paths, names, file contents) is a sequence of one-character       *)
(* strings, so that the string operations the code relies on (startswith,  *)
(* replace, count, the os.path functions) are computed per character.      *)
(***************************************************************************)
EXTENDS Integers, Sequences, FiniteSets, TLC

VARIABLES
    fsDirs,               \* filesystem: absolute directory paths, in listing order
    fsOrder,              \* filesystem: absolute file paths, in listing order
    fsFiles,              \* filesystem: file path -> [content, size]
    statFail,             \* files whose os.path.getsize raises
    readOnly,             \* files that cannot be opened for writing
    noList,               \* directories whose os.listdir raises
    backups,              \* clock seconds for which a backup directory exists
    clock,                \* time.time() in whole seconds
    codebase_root,        \* self.codebase_root ("" before the first scan)
    current_directory,    \* self.current_directory
    all_files_info,       \* self.all_files_info, an insertion-ordered dict
    codebase_context,     \* self.codebase_context: path -> content record
    directory_structure,  \* self.directory_structure: path -> node
    pending_changes,      \* self.pending_changes: change id -> proposal
    lastOp,               \* the operation that ran last, with its arguments
    lastResult,           \* the payload it returned
    writes,               \* files the last operation wrote (canonical paths)
    made_dirs             \* directories the last operation created

vars == <<fsDirs, fsOrder, fsFiles, statFail, readOnly, noList, backups, clock,
          codebase_root, current_directory, all_files_info, codebase_context,
          directory_structure, pending_changes, lastOp, lastResult, writes,
          made_dirs>>

fsVars == <<fsDirs, fsOrder, fsFiles, statFail, readOnly, noList>>
catalogVars == <<all_files_info, codebase_context, directory_structure>>

-----------------------------------------------------------------------------
(* Bounds *)

MaxClock == 1
MaxPending == 1

-----------------------------------------------------------------------------
(* Python str and os.path on character sequences *)

SEP == "/"
DOT == "."
NL == "\n"
EMPTY == << >>
NONE == <<"None">>
NoDepth == -1

SetMax(S) == CHOOSE x \in S : \A y \in S : y <= x

Range(s) == {s[i] : i \in 1..Len(s)}

StartsWith(s, pre) ==
    /\ Len(pre) <= Len(s)
    /\ SubSeq(s, 1, Len(pre)) = pre

EndsWith(s, suf) ==
    /\ Len(suf) <= Len(s)
    /\ SubSeq(s, Len(s) - Len(suf) + 1, Len(s)) = suf

Count(s, c) == Cardinality({i \in 1..Len(s) : s[i] = c})

RECURSIVE RFindFrom(_, _, _)
RFindFrom(s, c, i) ==
    IF i = 0 THEN 0 ELSE IF s[i] = c THEN i ELSE RFindFrom(s, c, i - 1)

RFind(s, c) == RFindFrom(s, c, Len(s))

RECURSIVE FindFrom(_, _, _)
FindFrom(s, c, i) ==
    IF i > Len(s) THEN 0 ELSE IF s[i] = c THEN i ELSE FindFrom(s, c, i + 1)

Find(s, c) == FindFrom(s, c, 1)

LowerChar(c) ==
    CASE c = "C" -> "c"
      [] c = "H" -> "h"
      [] c = "O" -> "o"
      [] OTHER -> c

Lower(s) == [i \in 1..Len(s) |-> LowerChar(s[i])]

RECURSIVE RemoveAll(_, _)
RemoveAll(s, old) ==
    IF old = EMPTY \/ Len(s) < Len(old) THEN s
    ELSE IF StartsWith(s, old)
         THEN RemoveAll(SubSeq(s, Len(old) + 1, Len(s)), old)
         ELSE <<s[1]>> \o RemoveAll(Tail(s), old)

RECURSIVE Split(_)
Split(s) ==
    LET i == Find(s, SEP)
    IN  IF i = 0 THEN <<s>>
        ELSE <<SubSeq(s, 1, i - 1)>> \o Split(SubSeq(s, i + 1, Len(s)))

RECURSIVE JoinSep(_)
JoinSep(comps) ==
    IF comps = EMPTY THEN EMPTY
    ELSE IF Len(comps) = 1 THEN comps[1]
    ELSE comps[1] \o <<SEP>> \o JoinSep(Tail(comps))

RECURSIVE RStripSep(_)
RStripSep(s) ==
    IF s # EMPTY /\ s[Len(s)] = SEP THEN RStripSep(SubSeq(s, 1, Len(s) - 1)) ELSE s

IsAbs(p) == StartsWith(p, <<SEP>>)

Join(a, b) ==
    IF IsAbs(b) THEN b
    ELSE IF a = EMPTY \/ EndsWith(a, <<SEP>>) THEN a \o b
    ELSE a \o <<SEP>> \o b

Dirname(p) ==
    LET i == RFind(p, SEP)
        head == SubSeq(p, 1, i)
    IN  IF head # EMPTY /\ Range(head) # {SEP} THEN RStripSep(head) ELSE head

Basename(p) == SubSeq(p, RFind(p, SEP) + 1, Len(p))

DOTDOT == <<DOT, DOT>>

RECURSIVE NormComps(_, _, _)
NormComps(comps, acc, initial) ==
    IF comps = EMPTY THEN acc
    ELSE LET comp == Head(comps)
             rest == Tail(comps)
         IN  IF comp = EMPTY \/ comp = <<DOT>> THEN NormComps(rest, acc, initial)
             ELSE IF \/ comp # DOTDOT
                     \/ (initial = 0 /\ acc = EMPTY)
                     \/ (acc # EMPTY /\ acc[Len(acc)] = DOTDOT)
                  THEN NormComps(rest, Append(acc, comp), initial)
             ELSE IF acc # EMPTY
                  THEN NormComps(rest, SubSeq(acc, 1, Len(acc) - 1), initial)
             ELSE NormComps(rest, acc, initial)

Normpath(path) ==
    IF path = EMPTY THEN <<DOT>>
    ELSE LET initial == IF ~IsAbs(path) THEN 0
                        ELSE IF StartsWith(path, <<SEP, SEP>>)
                                /\ ~StartsWith(path, <<SEP, SEP, SEP>>) THEN 2
                        ELSE 1
             body == JoinSep(NormComps(Split(path), EMPTY, initial))
             out == [i \in 1..initial |-> SEP] \o body
         IN  IF out = EMPTY THEN <<DOT>> ELSE out

NonEmptyComps(p) ==
    LET comps == Split(p)
        Keep(x) == x # EMPTY
    IN  SelectSeq(comps, Keep)

RECURSIVE CommonFrom(_, _, _)
CommonFrom(a, b, i) ==
    IF i < Len(a) /\ i < Len(b) /\ a[i + 1] = b[i + 1]
    THEN CommonFrom(a, b, i + 1) ELSE i

CommonLen(a, b) == CommonFrom(a, b, 0)

\* the working directory of the process, os.getcwd()
Getcwd == <<SEP>>

\* os.path.abspath
Abspath(path) == Normpath(Join(Getcwd, path))

\* os.path.relpath of a path that is not empty
Relpath(path, start) ==
    LET start_list == NonEmptyComps(Abspath(start))
        path_list == NonEmptyComps(Abspath(path))
        i == CommonLen(start_list, path_list)
        rel_list == [k \in 1..(Len(start_list) - i) |-> DOTDOT]
                    \o SubSeq(path_list, i + 1, Len(path_list))
    IN  IF rel_list = EMPTY THEN <<DOT>> ELSE JoinSep(rel_list)

\* os.path.splitext(p)[1]
SplitextExt(p) ==
    LET sepIndex == RFind(p, SEP)
        dotIndex == RFind(p, DOT)
    IN  IF /\ dotIndex > sepIndex
           /\ \E k \in (sepIndex + 1)..(dotIndex - 1) : p[k] # DOT
        THEN SubSeq(p, dotIndex, Len(p))
        ELSE EMPTY

\* len(content.splitlines()) for content whose only line break is "\n"
SplitlinesLen(content) ==
    IF content = EMPTY THEN 0
    ELSE Count(content, NL) + (IF content[Len(content)] = NL THEN 0 ELSE 1)

-----------------------------------------------------------------------------
(* The filesystem the session runs on *)

FsRoot == <<SEP>>
DirP == <<"/", "p">>
DirS == <<"/", "p", "/", "s">>
DirT == <<"/", "p", "/", "s", "/", "t">>
DirPP == <<"/", "p", "/", "p">>
DirGit == <<"/", "p", "/", ".", "g", "i", "t">>
DirU == <<"/", "p", "/", "u">>
DirPQ == <<"/", "p", "q">>

FileM == <<"/", "p", "/", "m", ".", "c">>
FileL == <<"/", "p", "/", "l", ".", "c">>
FileA == <<"/", "p", "/", "a", ".", "c">>
FileB == <<"/", "p", "/", "s", "/", "b", ".", "c">>
FileO == <<"/", "p", "/", "s", "/", "c", ".", "o">>
FileD == <<"/", "p", "/", "s", "/", "t", "/", "d", ".", "h">>
FileE == <<"/", "p", "/", "p", "/", "e", ".", "c">>
FileG == <<"/", "p", "/", ".", "g", "i", "t", "/", "h", ".", "c">>
FileX == <<"/", "p", "q", "/", "x", ".", "c">>

MaxFileSize == 10 * 1024 * 1024

TextExtensions == { <<".", "c">>, <<".", "h">>, <<".", "r">>, <<".", "m">> }

IgnoreDirs == { <<".", "g", "i", "t">>, <<"e", "n", "v">> }

InitDirs == <<FsRoot, DirP, DirS, DirT, DirPP, DirGit, DirU, DirPQ>>

InitOrder == <<FileM, FileL, FileA, FileB, FileO, FileD, FileE, FileG, FileX>>

Text(content) == [content |-> content, size |-> Len(content)]

InitFiles ==
    (FileM :> [content |-> <<"x">>, size |-> 11 * 1024 * 1024])
    @@ (FileL :> Text(<<"x">>))
    @@ (FileA :> Text(<<"x", NL, "y">>))
    @@ (FileB :> Text(<<"x", NL>>))
    @@ (FileO :> Text(<<"x", "x">>))
    @@ (FileD :> Text(<<"x">>))
    @@ (FileE :> Text(<<"x">>))
    @@ (FileG :> Text(<<"x">>))
    @@ (FileX :> Text(<<"x">>))

\* The kernel's path resolution: every component but the last must be an
\* existing directory; the result is the canonical path, or NONE.
RECURSIVE ResolveComps(_, _, _)
ResolveComps(dirSet, comps, cur) ==
    IF comps = EMPTY THEN cur
    ELSE IF cur \notin dirSet THEN NONE
    ELSE LET comp == Head(comps)
         IN  IF comp = EMPTY \/ comp = <<DOT>>
             THEN ResolveComps(dirSet, Tail(comps), cur)
             ELSE IF comp = DOTDOT
             THEN ResolveComps(dirSet, Tail(comps), Dirname(cur))
             ELSE ResolveComps(dirSet, Tail(comps), Join(cur, comp))

\* the empty path names nothing; a relative path starts at Getcwd
Resolve(dirSet, p) ==
    IF p = EMPTY THEN NONE ELSE ResolveComps(dirSet, Split(p), Getcwd)

IsDir(dirSet, p) == Resolve(dirSet, p) \in dirSet

IsFile(dirSet, fileSet, p) == Resolve(dirSet, p) \in fileSet

\* p names the directory top or something below it
Within(top, p) ==
    LET a == NonEmptyComps(top)
        b == NonEmptyComps(p)
    IN  Len(a) <= Len(b) /\ SubSeq(b, 1, Len(a)) = a

ListedDirs(dirs, d) ==
    LET Child(x) == x # d /\ Dirname(x) = d
    IN  SelectSeq(dirs, Child)

ListedFiles(order, d) ==
    LET Child(x) == Dirname(x) = d
    IN  SelectSeq(order, Child)

Names(paths) == [i \in 1..Len(paths) |-> Basename(paths[i])]

-----------------------------------------------------------------------------
(* scan_codebase *)

NotIgnored(paths, ignore_dirs) ==
    LET Keep(x) == Basename(x) \notin ignore_dirs
    IN  SelectSeq(paths, Keep)

\* current_depth > max_depth, as scan_codebase computes it
DepthExceeded(root, top, max_depth) ==
    /\ max_depth # NoDepth
    /\ Count(RemoveAll(root, top), SEP) > max_depth

\* the directories os.walk yields whose files the loop body processes
RECURSIVE WalkKept(_, _, _, _, _, _)
RECURSIVE WalkKeptAll(_, _, _, _, _, _)
WalkKept(dirs, unlistable, root, top, ignore_dirs, max_depth) ==
    IF root \in unlistable THEN EMPTY
    ELSE IF DepthExceeded(root, top, max_depth) THEN EMPTY
    ELSE <<root>> \o WalkKeptAll(dirs, unlistable,
                                 NotIgnored(ListedDirs(dirs, root), ignore_dirs),
                                 top, ignore_dirs, max_depth)

WalkKeptAll(dirs, unlistable, children, top, ignore_dirs, max_depth) ==
    IF children = EMPTY THEN EMPTY
    ELSE WalkKept(dirs, unlistable, Head(children), top, ignore_dirs, max_depth)
         \o WalkKeptAll(dirs, unlistable, Tail(children), top, ignore_dirs, max_depth)

RECURSIVE Flatten(_)
Flatten(seqs) == IF seqs = EMPTY THEN EMPTY ELSE Head(seqs) \o Flatten(Tail(seqs))

WalkFiles(dirs, order, unlistable, top, ignore_dirs, max_depth) ==
    LET kept == WalkKept(dirs, unlistable, top, top, ignore_dirs, max_depth)
    IN  Flatten([i \in 1..Len(kept) |-> ListedFiles(order, kept[i])])

Unbound == -1

ExtOf(file_extension) ==
    IF file_extension # EMPTY THEN Tail(file_extension) ELSE EMPTY

FileInfo(relative_path, extension, size) ==
    [path |-> relative_path, extension |-> extension, size |-> size]

ContentInfo(relative_path, content, language) ==
    [content |-> content,
     language |-> language,
     size |-> Len(content),
     lines |-> SplitlinesLen(content),
     path |-> relative_path,
     depth |-> Count(relative_path, SEP)]

\* line 120: the size test that guards loading a file's content
TooLarge(file_size) == file_size > MaxFileSize

\* one iteration of "for file in files"; acc.file_size is the loop's
\* file_size variable, which survives from one iteration to the next
ScanFile(files, failing, top, file_path, acc) ==
    LET relative_path == Relpath(file_path, top)
        file_extension == Lower(SplitextExt(Basename(file_path)))
        exts == IF file_extension # EMPTY
                THEN acc.exts \cup {Tail(file_extension)} ELSE acc.exts
        statOk == file_path \notin failing
        file_size == IF statOk THEN files[file_path].size ELSE acc.file_size
        all_files == IF statOk
                     THEN Append(acc.all_files,
                                 FileInfo(relative_path, ExtOf(file_extension), file_size))
                     ELSE acc.all_files
        load == /\ file_extension \in TextExtensions
                /\ file_size # Unbound
                /\ ~TooLarge(file_size)
        file_contents == IF load
                         THEN (relative_path :>
                                 ContentInfo(relative_path, files[file_path].content,
                                             Tail(file_extension)))
                              @@ acc.file_contents
                         ELSE acc.file_contents
    IN  [all_files |-> all_files, file_contents |-> file_contents,
         file_size |-> file_size, exts |-> exts]

\* the loop "for file in files", in order; the list is handled in two halves
\* and the state after the first half is bound before the second half runs
RECURSIVE ScanSpan(_, _, _, _, _, _, _)
ScanSpan(files, failing, top, todo, lo, hi, acc) ==
    IF lo > hi THEN acc
    ELSE IF lo = hi THEN ScanFile(files, failing, top, todo[lo], acc)
    ELSE CHOOSE done \in
            { ScanSpan(files, failing, top, todo, (lo + hi) \div 2 + 1, hi, half) :
                half \in {ScanSpan(files, failing, top, todo, lo, (lo + hi) \div 2, acc)} } :
            TRUE

ScanLoop(files, failing, top, todo, acc) ==
    ScanSpan(files, failing, top, todo, 1, Len(todo), acc)

EmptyMap == << >>

ScanStart == [all_files |-> EMPTY, file_contents |-> EmptyMap,
              file_size |-> Unbound, exts |-> {}]

\* _build_directory_structure
DirNode(dirs, order, root, top, ignore_dirs) ==
    LET rel == Relpath(root, top)
        rel_path == IF rel = <<DOT>> THEN EMPTY ELSE rel
    IN  [path |-> rel_path,
         dirs |-> Names(NotIgnored(ListedDirs(dirs, root), ignore_dirs)),
         files |-> Names(ListedFiles(order, root)),
         parent |-> Dirname(rel_path),
         depth |-> IF rel_path # EMPTY THEN Count(rel_path, SEP) ELSE 0]

BuildDirectoryStructure(dirs, order, unlistable, top, ignore_dirs, max_depth) ==
    LET kept == WalkKept(dirs, unlistable, top, top, ignore_dirs, max_depth)
        RelOf(root) == LET rel == Relpath(root, top)
                       IN  IF rel = <<DOT>> THEN EMPTY ELSE rel
    IN  [p \in {RelOf(root) : root \in Range(kept)} |->
            LET root == CHOOSE r \in Range(kept) : RelOf(r) = p
            IN  DirNode(dirs, order, root, top, ignore_dirs)]

\* _generate_project_structure lists every directory that is not ignored,
\* whatever max_depth is, and does not catch a failing os.listdir
RECURSIVE TreeRaises(_, _, _, _)
TreeRaises(dirs, unlistable, directory, ignore_dirs) ==
    \/ directory \in unlistable
    \/ LET sub == NotIgnored(ListedDirs(dirs, directory), ignore_dirs)
       IN  \E i \in 1..Len(sub) : TreeRaises(dirs, unlistable, sub[i], ignore_dirs)

Keys(info) == {info[i].path : i \in 1..Len(info)}

MaxOf(S, default) == IF S = {} THEN default ELSE SetMax(S)

ScanRoots == {DirP}
ScanDepths == {NoDepth, 0, 1}

ScanResult(done) ==
    [status |-> "ok",
     files_analyzed |-> Cardinality(DOMAIN done.file_contents),
     total_files |-> Len(done.all_files),
     max_depth |-> MaxOf({done.file_contents[p].depth : p \in DOMAIN done.file_contents}, 0),
     extensions_found |-> done.exts]

Scan(root_dir, max_depth) ==
    LET top == Normpath(root_dir)
        todo == WalkFiles(fsDirs, fsOrder, noList, top, IgnoreDirs, max_depth)
    IN  \E done \in {ScanLoop(fsFiles, statFail, top, todo, ScanStart)} :
        /\ codebase_root' = top
        /\ current_directory' = top
        /\ directory_structure' =
               BuildDirectoryStructure(fsDirs, fsOrder, noList, top, IgnoreDirs, max_depth)
        /\ codebase_context' = done.file_contents
        /\ all_files_info' = done.all_files
        /\ lastOp' = [name |-> "scan", arg |-> root_dir, max_depth |-> max_depth]
        /\ lastResult' =
               IF TreeRaises(fsDirs, noList, top, IgnoreDirs)
               THEN [status |-> "raised"]
               ELSE ScanResult(done)
        /\ writes' = {}
        /\ made_dirs' = {}
        /\ UNCHANGED <<fsVars, backups, clock, pending_changes>>

-----------------------------------------------------------------------------
(* list_directory / change_directory *)

Error(kind) == [status |-> "error", error |-> kind]

\* lines 414-434: the directory the argument resolves to
ListTarget(cwd, root, directory) ==
    IF directory = NONE THEN cwd
    ELSE IF StartsWith(directory, DOTDOT)
         THEN LET parent_dir == Dirname(cwd)
              IN  IF parent_dir = cwd THEN root ELSE parent_dir
    ELSE IF directory = <<DOT>> THEN cwd
    ELSE IF IsAbs(directory) THEN directory
    ELSE Normpath(Join(cwd, directory))

\* lines 427-430: the scope test, applied to absolute arguments only
ListOutOfScope(root, directory) ==
    /\ directory # NONE
    /\ ~StartsWith(directory, DOTDOT)
    /\ directory # <<DOT>>
    /\ IsAbs(directory)
    /\ ~StartsWith(directory, root)

\* lines 454-485: os.listdir of the target, os.path.getsize of each file in it
ListingRaises(dirs, unlistable, failing, target_dir) ==
    LET real == Resolve(Range(dirs), target_dir)
    IN  \/ real \in unlistable
        \/ \E f \in failing : Dirname(f) = real

\* line 443: the cursor is moved before the entries are read
CursorAfterListing(cwd, target_dir, raised) == target_dir

ListDirectory(directory) ==
    LET target_dir == ListTarget(current_directory, codebase_root, directory)
        real == Resolve(Range(fsDirs), target_dir)
        raised == ListingRaises(fsDirs, noList, statFail, target_dir)
        rel == Relpath(target_dir, codebase_root)
        rel_path == IF rel = <<DOT>> THEN EMPTY ELSE rel
    IN  /\ lastOp' = [name |-> "list", arg |-> directory, from |-> current_directory]
        /\ writes' = {}
        /\ made_dirs' = {}
        /\ UNCHANGED <<fsVars, backups, clock, codebase_root, catalogVars, pending_changes>>
        /\ IF codebase_root = EMPTY
           THEN /\ lastResult' = Error("NotScanned")
                /\ UNCHANGED current_directory
           ELSE IF ListOutOfScope(codebase_root, directory)
           THEN /\ lastResult' = Error("PathOutOfScope")
                /\ UNCHANGED current_directory
           ELSE IF ~IsDir(Range(fsDirs), target_dir)
           THEN /\ lastResult' = Error("NotFound")
                /\ UNCHANGED current_directory
           ELSE /\ current_directory' = CursorAfterListing(current_directory, target_dir, raised)
                /\ lastResult' =
                       IF raised THEN Error("IOFailure")
                       ELSE [status |-> "ok",
                             current_dir |-> IF rel_path # EMPTY THEN rel_path ELSE <<SEP>>,
                             abs_path |-> target_dir,
                             dir_count |-> Len(ListedDirs(fsDirs, real)),
                             file_count |-> Len(ListedFiles(fsOrder, real)),
                             depth |-> IF rel_path # EMPTY THEN Count(rel_path, SEP) ELSE 0]

\* change_directory(path) is list_directory(path)
ChangeDirectory(directory) == ListDirectory(directory)

DirArgs ==
    { NONE, <<DOT>>, DOTDOT,
      <<".", ".", "/", "s">>,
      <<"s">>, <<"t">>, <<"p">>, <<"u">>,
      <<"s", "/", ".", ".", "/", ".", ".">>,
      <<"a", ".", "c">>,
      <<"z">>,
      DirS, DirPQ, <<"/", "q">>, FsRoot }

-----------------------------------------------------------------------------
(* get_file_content and the on-demand load of analyze_file *)

TextLanguage == <<"t", "e", "x", "t">>

LanguageOf(path) ==
    LET file_extension == Lower(SplitextExt(path))
    IN  IF file_extension # EMPTY THEN Tail(file_extension) ELSE TextLanguage

\* lines 914-929: [found, full_path, relative_path] or an error kind
LocateFile(dirs, files, cwd, root, file_path) ==
    LET dirSet == Range(dirs)
        fileSet == DOMAIN files
        in_cwd == Join(cwd, file_path)
        in_root == Join(root, file_path)
    IN  IF IsAbs(file_path)
        THEN IF ~StartsWith(file_path, root)
             THEN [found |-> FALSE, error |-> "PathOutOfScope"]
             ELSE [found |-> TRUE, full_path |-> file_path,
                   relative_path |-> Relpath(file_path, root)]
        ELSE IF IsFile(dirSet, fileSet, in_cwd)
             THEN [found |-> TRUE, full_path |-> in_cwd,
                   relative_path |-> Relpath(in_cwd, root)]
        ELSE IF IsFile(dirSet, fileSet, in_root)
             THEN [found |-> TRUE, full_path |-> in_root, relative_path |-> file_path]
        ELSE [found |-> FALSE, error |-> "NotFound"]

GetFileContent(file_path) ==
    LET loc == LocateFile(fsDirs, fsFiles, current_directory, codebase_root, file_path)
        real == Resolve(Range(fsDirs), loc.full_path)
    IN  /\ lastOp' = [name |-> "viewfile", arg |-> file_path]
        /\ writes' = {}
        /\ made_dirs' = {}
        /\ UNCHANGED <<fsVars, backups, clock, codebase_root, current_directory,
                       all_files_info, directory_structure, pending_changes>>
        /\ IF codebase_root = EMPTY
           THEN /\ lastResult' = Error("NotScanned")
                /\ UNCHANGED codebase_context
           ELSE IF ~loc.found
           THEN /\ lastResult' = Error(loc.error)
                /\ UNCHANGED codebase_context
           ELSE IF loc.relative_path \in DOMAIN codebase_context
           THEN /\ lastResult' = [status |-> "ok", path |-> loc.relative_path,
                                  lines |-> codebase_context[loc.relative_path].lines]
                /\ UNCHANGED codebase_context
           ELSE IF real \in DOMAIN fsFiles
           THEN /\ codebase_context' =
                       (loc.relative_path :>
                           ContentInfo(loc.relative_path, fsFiles[real].content,
                                       LanguageOf(loc.full_path)))
                       @@ codebase_context
                /\ lastResult' = [status |-> "ok", path |-> loc.relative_path,
                                  lines |-> SplitlinesLen(fsFiles[real].content)]
           ELSE /\ lastResult' = Error("NotFound")
                /\ UNCHANGED codebase_context

\* lines 608-644 of analyze_file; the analysis text itself comes from the
\* LLM collaborator and is not part of the catalog
AnalyzeFile(file_path) ==
    LET dirSet == Range(fsDirs)
        in_cwd == Join(current_directory, file_path)
        full_path == IF IsAbs(file_path) THEN file_path
                     ELSE IF Resolve(dirSet, in_cwd) \in (dirSet \cup DOMAIN fsFiles)
                          THEN in_cwd
                     ELSE Join(codebase_root, file_path)
        relative_path == Relpath(full_path, codebase_root)
        real == Resolve(dirSet, full_path)
    IN  /\ codebase_root # EMPTY
        /\ lastOp' = [name |-> "analyze", arg |-> file_path]
        /\ writes' = {}
        /\ made_dirs' = {}
        /\ UNCHANGED <<fsVars, backups, clock, codebase_root, current_directory,
                       all_files_info, directory_structure, pending_changes>>
        /\ IF file_path \in DOMAIN codebase_context
           THEN /\ lastResult' = [status |-> "ok", path |-> file_path]
                /\ UNCHANGED codebase_context
           ELSE IF IsAbs(file_path) /\ ~StartsWith(file_path, codebase_root)
           THEN /\ lastResult' = Error("PathOutOfScope")
                /\ UNCHANGED codebase_context
           ELSE IF real \in DOMAIN fsFiles
           THEN /\ codebase_context' =
                       (relative_path :>
                           ContentInfo(relative_path, fsFiles[real].content,
                                       LanguageOf(file_path)))
                       @@ codebase_context
                /\ lastResult' = [status |-> "ok", path |-> relative_path]
           ELSE /\ lastResult' = Error("NotFound")
                /\ UNCHANGED codebase_context

FileArgs == { <<".", "g", "i", "t", "/", "h", ".", "c">> }

-----------------------------------------------------------------------------
(* suggest_feature_implementation, reject_changes *)

Block(path, content) == [path |-> path, content |-> content]

\* _extract_proposed_changes over the "File:" blocks of the suggestion text
RECURSIVE ExtractProposedChanges(_, _, _)
ExtractProposedChanges(context, blocks, acc) ==
    IF blocks = EMPTY THEN acc
    ELSE LET file_path == Head(blocks).path
             code_content == Head(blocks).content
         IN  IF file_path \in DOMAIN context
             THEN ExtractProposedChanges(context, Tail(blocks),
                      [acc EXCEPT !.files_to_modify =
                          Append(@, [path |-> file_path,
                                     original_content |-> context[file_path].content,
                                     new_content |-> code_content])])
             ELSE ExtractProposedChanges(context, Tail(blocks),
                      [acc EXCEPT !.files_to_create =
                          Append(@, [path |-> file_path, content |-> code_content])])

NoChanges == [files_to_modify |-> EMPTY, files_to_create |-> EMPTY]

\* line 1035: change_id = f"change_{int(time.time())}"
ChangeId(now) == now

Suggest(blocks, serviceOk) ==
    LET proposed_changes == ExtractProposedChanges(codebase_context, blocks, NoChanges)
        change_id == ChangeId(clock)
    IN  /\ \/ change_id \in DOMAIN pending_changes
           \/ Cardinality(DOMAIN pending_changes) < MaxPending
        /\ lastOp' = [name |-> "suggest"]
        /\ writes' = {}
        /\ made_dirs' = {}
        /\ UNCHANGED <<fsVars, backups, clock, codebase_root, current_directory,
                       catalogVars>>
        /\ IF codebase_context = EmptyMap
           THEN /\ lastResult' = Error("NotScanned")
                /\ UNCHANGED pending_changes
           ELSE IF ~serviceOk
           THEN /\ lastResult' = Error("ServiceError")
                /\ UNCHANGED pending_changes
           ELSE /\ pending_changes' =
                       (change_id :> [proposed_changes |-> proposed_changes])
                       @@ pending_changes
                /\ lastResult' = [status |-> "ok", change_id |-> change_id]

RejectChanges(change_id) ==
    /\ lastOp' = [name |-> "reject", arg |-> change_id]
    /\ writes' = {}
    /\ made_dirs' = {}
    /\ UNCHANGED <<fsVars, backups, clock, codebase_root, current_directory, catalogVars>>
    /\ IF change_id \notin DOMAIN pending_changes
       THEN /\ lastResult' = Error("NotFound")
            /\ UNCHANGED pending_changes
       ELSE /\ pending_changes' =
                   [id \in DOMAIN pending_changes \ {change_id} |-> pending_changes[id]]
            /\ lastResult' = [status |-> "ok"]

\* get_change_details, lines 1244-1251: what the call returns
DetailsOfAny(pending, change_id) == [status |-> "ok"]

DetailsOf(pending, change_id) ==
    IF change_id \notin DOMAIN pending
    THEN Error("NotFound")
    ELSE [status |-> "ok", details |-> pending[change_id]]

GetChangeDetails(change_id) ==
    /\ lastOp' = [name |-> "details", arg |-> change_id]
    /\ lastResult' = DetailsOf(pending_changes, change_id)
    /\ writes' = {}
    /\ made_dirs' = {}
    /\ UNCHANGED <<fsVars, backups, clock, codebase_root, current_directory, catalogVars,
                   pending_changes>>

Tick ==
    /\ clock < MaxClock
    /\ clock' = clock + 1
    /\ lastOp' = [name |-> "tick"]
    /\ lastResult' = [status |-> "ok"]
    /\ writes' = {}
    /\ made_dirs' = {}
    /\ UNCHANGED <<fsVars, backups, codebase_root, current_directory, catalogVars,
                   pending_changes>>

NewA == <<"n", NL, "e", NL, "w">>
NewZ == <<"z">>

Responses ==
    { <<Block(<<"a", ".", "c">>, NewA),
        Block(<<"a", ".", "c", "/", "z", ".", "c">>, NewZ),
        Block(<<"k", ".", "c">>, NewZ)>>,
      <<Block(<<"s">>, NewZ),
        Block(<<".", ".", "/", "o", ".", "c">>, NewZ),
        Block(<<"n", "/", "z", ".", "c">>, NewZ),
        Block(<<"/", "p", "q", "/", "w", ".", "c">>, NewZ)>> }

-----------------------------------------------------------------------------
(* approve_changes *)

\* shutil.copytree reports an error for every entry it cannot read
RECURSIVE CopyErrors(_, _, _, _, _)
CopyErrors(dirs, order, unlistable, failing, directory) ==
    \/ directory \in unlistable
    \/ \E f \in failing : Dirname(f) = directory /\ Basename(f) \notin IgnoreDirs
    \/ LET sub == NotIgnored(ListedDirs(dirs, directory), IgnoreDirs)
       IN  \E i \in 1..Len(sub) : CopyErrors(dirs, order, unlistable, failing, sub[i])

\* _backup_codebase raises: the backup directory of this second exists
\* already, or some entry could not be copied
BackupRaises(dirs, order, unlistable, failing, taken, now, root) ==
    \/ now \in taken
    \/ CopyErrors(dirs, order, unlistable, failing, root)

\* line 1119 sits inside the try block: when the backup raises, control
\* leaves the block and neither loop runs
EntriesSwallowed(backupRaised) == TRUE

EntriesApplied(backupRaised) == ~backupRaised

\* os.makedirs(path, exist_ok=True)
RECURSIVE MakeDirs(_, _, _, _, _)
MakeDirs(dirs, fileSet, comps, cur, made) ==
    IF comps = EMPTY THEN [dirs |-> dirs, ok |-> TRUE, made |-> made]
    ELSE LET comp == Head(comps)
             next == Join(cur, comp)
         IN  IF comp = EMPTY \/ comp = <<DOT>>
             THEN MakeDirs(dirs, fileSet, Tail(comps), cur, made)
             ELSE IF comp = DOTDOT
             THEN MakeDirs(dirs, fileSet, Tail(comps), Dirname(cur), made)
             ELSE IF next \in fileSet
             THEN [dirs |-> dirs, ok |-> FALSE, made |-> made]
             ELSE IF next \in Range(dirs)
             THEN MakeDirs(dirs, fileSet, Tail(comps), next, made)
             ELSE MakeDirs(Append(dirs, next), fileSet, Tail(comps), next,
                           made \cup {next})

\* open(file_path, 'w') succeeds
CanWrite(dirs, ro, file_path) ==
    LET real == Resolve(Range(dirs), file_path)
    IN  /\ real # NONE
        /\ real \notin Range(dirs)
        /\ real \notin ro

WriteFile(st, real, content) ==
    [st EXCEPT !.files = (real :> Text(content)) @@ st.files,
               !.order = IF real \in DOMAIN st.files THEN st.order
                         ELSE Append(st.order, real),
               !.writes = st.writes \cup {real}]

\* dict assignment: an existing key keeps its position
SetInfo(info, rec) ==
    IF rec.path \in Keys(info)
    THEN [i \in 1..Len(info) |-> IF info[i].path = rec.path THEN rec ELSE info[i]]
    ELSE Append(info, rec)

\* lines 1122-1136: one iteration of the loop over files_to_modify
ApplyModify(root, ro, st, file_change) ==
    LET file_path == Join(root, file_change.path)
        real == Resolve(Range(st.dirs), file_path)
        relative_path == Relpath(file_path, root)
        new_content == file_change.new_content
        began == [st EXCEPT !.attempted = st.attempted + 1]
    IN  IF ~CanWrite(st.dirs, ro, file_path)
        THEN [began EXCEPT !.errors = Append(st.errors, file_path)]
        ELSE LET written == WriteFile(began, real, new_content)
             IN  IF relative_path \notin DOMAIN st.context
                 THEN [written EXCEPT !.errors = Append(st.errors, file_path)]
                 ELSE [written EXCEPT
                          !.context[relative_path].content = new_content,
                          !.context[relative_path].size = Len(new_content),
                          !.context[relative_path].lines = SplitlinesLen(new_content),
                          !.modified_files = Append(st.modified_files, relative_path)]

\* lines 1139-1173: one iteration of the loop over files_to_create; line
\* 1143 is outside the inner try block, so a failing os.makedirs ends the
\* whole call through the outer handler
ApplyCreate(root, ro, st, file_create) ==
    LET file_path == Join(root, file_create.path)
        mk == MakeDirs(st.dirs, DOMAIN st.files, Split(Dirname(file_path)), FsRoot, {})
        began == [st EXCEPT !.attempted = st.attempted + 1,
                            !.dirs = mk.dirs,
                            !.made = st.made \cup mk.made]
        real == Resolve(Range(mk.dirs), file_path)
        relative_path == Relpath(file_path, root)
        content == file_create.content
        language == ExtOf(SplitextExt(file_path))
    IN  IF ~mk.ok
        THEN [began EXCEPT !.aborted = TRUE]
        ELSE IF ~CanWrite(mk.dirs, ro, file_path)
        THEN [began EXCEPT !.errors = Append(st.errors, file_path)]
        ELSE LET written == WriteFile(began, real, content)
             IN  [written EXCEPT
                     !.context = (relative_path :>
                                     ContentInfo(relative_path, content, language))
                                 @@ st.context,
                     !.info = SetInfo(st.info,
                                      FileInfo(relative_path, language, Len(content))),
                     !.created_files = Append(st.created_files, relative_path)]

\* the loop of lines 1122-1136; the state after an iteration is bound once
\* before the next iteration reads it
RECURSIVE ApplyModifyAll(_, _, _, _)
ApplyModifyAll(root, ro, st, todo) ==
    IF todo = EMPTY THEN st
    ELSE CHOOSE done \in { ApplyModifyAll(root, ro, after, Tail(todo)) :
                              after \in {ApplyModify(root, ro, st, Head(todo))} } : TRUE

\* the loop of lines 1139-1173, left at the first os.makedirs that raises
RECURSIVE ApplyCreateAll(_, _, _, _)
ApplyCreateAll(root, ro, st, todo) ==
    IF todo = EMPTY \/ st.aborted THEN st
    ELSE CHOOSE done \in { ApplyCreateAll(root, ro, after, Tail(todo)) :
                              after \in {ApplyCreate(root, ro, st, Head(todo))} } : TRUE

ApplyStart ==
    [dirs |-> fsDirs, order |-> fsOrder, files |-> fsFiles,
     context |-> codebase_context, info |-> all_files_info,
     modified_files |-> EMPTY, created_files |-> EMPTY, errors |-> EMPTY,
     writes |-> {}, made |-> {}, attempted |-> 0, aborted |-> FALSE]

\* lines 1175-1183: the proposal is removed only when no error was collected
StillPending(pending, change_id, errors) ==
    IF errors = EMPTY
    THEN [id \in DOMAIN pending \ {change_id} |-> pending[id]]
    ELSE pending

ApproveChanges(change_id) ==
    LET changes == pending_changes[change_id].proposed_changes
        entries == Len(changes.files_to_modify) + Len(changes.files_to_create)
        backupRaised == BackupRaises(fsDirs, fsOrder, noList, statFail, backups, clock,
                                     codebase_root)
        modified == IF EntriesApplied(backupRaised)
                    THEN ApplyModifyAll(codebase_root, readOnly, ApplyStart,
                                        changes.files_to_modify)
                    ELSE ApplyStart
        applied == IF EntriesApplied(backupRaised)
                   THEN {ApplyCreateAll(codebase_root, readOnly, after,
                                        changes.files_to_create) : after \in {modified}}
                   ELSE {ApplyStart}
    IN  IF change_id \notin DOMAIN pending_changes
        THEN /\ lastOp' = [name |-> "approve", arg |-> change_id]
             /\ lastResult' = Error("NotFound")
             /\ writes' = {}
             /\ made_dirs' = {}
             /\ UNCHANGED <<fsVars, backups, clock, codebase_root, current_directory,
                            catalogVars, pending_changes>>
        ELSE \E st \in applied :
             /\ lastOp' = [name |-> "approve", arg |-> change_id,
                           proposal |-> pending_changes[change_id],
                           entries |-> entries,
                           attempted |-> st.attempted,
                           backup_raised |-> backupRaised]
             /\ backups' = IF clock \in backups THEN backups ELSE backups \cup {clock}
             /\ fsDirs' = st.dirs
             /\ fsOrder' = st.order
             /\ fsFiles' = st.files
             /\ codebase_context' = st.context
             /\ all_files_info' = st.info
             /\ writes' = st.writes
             /\ made_dirs' = st.made
             /\ UNCHANGED <<statFail, readOnly, noList, clock, codebase_root,
                            current_directory, directory_structure>>
             /\ IF backupRaised \/ st.aborted
                THEN /\ lastResult' = [status |-> "error", error |-> "IOFailure",
                                       success |-> FALSE]
                     /\ UNCHANGED pending_changes
                ELSE /\ lastResult' =
                            [status |-> IF st.errors = EMPTY THEN "ok" ELSE "error",
                             success |-> st.errors = EMPTY,
                             modified_files |-> st.modified_files,
                             created_files |-> st.created_files,
                             errors |-> st.errors,
                             backup_dir |-> IF st.errors = EMPTY THEN clock ELSE -1]
                     /\ pending_changes' = StillPending(pending_changes, change_id, st.errors)

ChangeIds == 0..MaxClock

-----------------------------------------------------------------------------
(* find_all_files_by_extension, find_files, scan_nested_directories and
   search_in_codebase: queries over the catalog. They change no field of the
   assistant; what a call returned is kept in lastResult. *)

\* a second file system for the queries: a directory /w with WideCount files
\* g1.c, g2.c, ..., the files O.C and r.h, and a subdirectory g with y.c
WideCount == 101

DirW == <<SEP, "w">>
DirWG == <<SEP, "w", SEP, "g">>

Digits == <<"0", "1", "2", "3", "4", "5", "6", "7", "8", "9">>

RECURSIVE Decimal(_)
Decimal(n) ==
    IF n < 10 THEN <<Digits[n + 1]>>
    ELSE Decimal(n \div 10) \o <<Digits[(n % 10) + 1]>>

FileWide(i) == DirW \o <<SEP, "g">> \o Decimal(i) \o <<DOT, "c">>
FileWO == DirW \o <<SEP, "O", DOT, "C">>
FileWR == DirW \o <<SEP, "r", DOT, "h">>
FileWY == DirWG \o <<SEP, "y", DOT, "c">>

\* ten lines, the fifth one is "t"
TenLines ==
    <<"a", NL, "b", NL, "d", NL, "e", NL, "t", NL, "f", NL, "i", NL, "j", NL,
      "k", NL, "l">>

WideDirs == <<FsRoot, DirW, DirWG>>

WideOrder == [i \in 1..WideCount |-> FileWide(i)] \o <<FileWO, FileWR, FileWY>>

WideFiles ==
    [f \in Range(WideOrder) |->
        IF f = FileWY THEN Text(TenLines)
        ELSE IF f = FileWO THEN Text(<<"o">>)
        ELSE Text(<<"x">>)]

\* line 838: the default of the limit parameter of find_files
DefaultLimit == 100

\* a query that puts the cursor back on the root of the catalog
QueryRewinds(op, result) ==
    /\ lastOp' = op
    /\ lastResult' = result
    /\ writes' = {}
    /\ made_dirs' = {}
    /\ current_directory' = codebase_root
    /\ UNCHANGED <<fsVars, backups, clock, codebase_root, catalogVars, pending_changes>>

\* a query changes nothing
QueryReturns(op, result) ==
    /\ lastOp' = op
    /\ lastResult' = result
    /\ writes' = {}
    /\ made_dirs' = {}
    /\ UNCHANGED <<fsVars, backups, clock, codebase_root, current_directory, catalogVars,
                   pending_changes>>

\* lines 361-398
FindByExtensionResult(info, extension) ==
    LET ext == IF StartsWith(extension, <<DOT>>) THEN Tail(extension) ELSE extension
        Matching(rec) == Lower(rec.extension) = Lower(ext)
        matching_files == SelectSeq(info, Matching)
    IN  IF info = EMPTY THEN Error("NotScanned")
        ELSE [status |-> "ok",
              extension |-> ext,
              count |-> Len(matching_files),
              files |-> [i \in 1..Len(matching_files) |->
                            [path |-> matching_files[i].path,
                             size |-> matching_files[i].size]]]

FindAllFilesByExtension(extension) ==
    QueryReturns([name |-> "findext", arg |-> extension],
                 FindByExtensionResult(all_files_info, extension))

\* fnmatch.fnmatch for patterns made of literal characters, "*" and "?"
RECURSIVE Fnmatch(_, _)
Fnmatch(name, pat) ==
    IF pat = EMPTY THEN name = EMPTY
    ELSE IF Head(pat) = "*"
         THEN Fnmatch(name, Tail(pat)) \/ (name # EMPTY /\ Fnmatch(Tail(name), pat))
    ELSE IF name = EMPTY THEN FALSE
    ELSE (Head(pat) = "?" \/ Head(pat) = Head(name)) /\ Fnmatch(Tail(name), Tail(pat))

\* an optional argument that is None or empty is no filter
Given(arg) == arg # NONE /\ arg # EMPTY

\* lines 866-886: what the loop body decides for one FileRecord before it
\* looks at the limit: "skip" is the continue of lines 873 and 878
FindKind(file_path, current_rel_dir, pattern, extension, path_pattern, in_current_dir, recursive) ==
    IF in_current_dir /\ recursive
       /\ ~(file_path = current_rel_dir
            \/ StartsWith(file_path, current_rel_dir \o <<SEP>>))
    THEN "skip"
    ELSE IF in_current_dir /\ ~recursive /\ Dirname(file_path) # current_rel_dir
    THEN "skip"
    ELSE IF /\ Given(pattern) => Fnmatch(Basename(file_path), pattern)
            /\ Given(extension)
                  => EndsWith(Lower(file_path), <<DOT>> \o Lower(extension))
            /\ Given(path_pattern) => Fnmatch(file_path, path_pattern)
    THEN "match"
    ELSE "other"

\* lines 866-896: one FileRecord of the loop; the limit is tested after a
\* record was handled, and only when the record was not skipped
FindStep(info, kinds, i, limit, st) ==
    IF kinds[i] = "skip" THEN st
    ELSE CHOOSE out \in
            { [results |-> r, stopped |-> Len(r) >= limit] :
                r \in {IF kinds[i] = "match"
                       THEN Append(st.results, [path |-> info[i].path,
                                                size |-> info[i].size,
                                                extension |-> info[i].extension])
                       ELSE st.results} } : TRUE

\* the loop over the FileRecords lo..hi, in order, left at the break; the
\* records are handled in two halves
RECURSIVE FindSpan(_, _, _, _, _, _)
FindSpan(info, kinds, lo, hi, limit, st) ==
    IF st.stopped \/ lo > hi THEN st
    ELSE IF lo = hi THEN FindStep(info, kinds, lo, limit, st)
    ELSE CHOOSE out \in
            { FindSpan(info, kinds, (lo + hi) \div 2 + 1, hi, limit, half) :
                half \in {FindSpan(info, kinds, lo, (lo + hi) \div 2, limit, st)} } : TRUE

FindLoop(info, kinds, limit) ==
    FindSpan(info, kinds, 1, Len(info), limit, [results |-> << >>, stopped |-> FALSE]).results

\* lines 837-904
FindFilesResult(info, cwd, root, pattern, extension, path_pattern, in_current_dir, recursive, limit) ==
    LET rel == Relpath(cwd, root)
        current_rel_dir == IF rel = <<DOT>> THEN EMPTY ELSE rel
        found == { FindLoop(info, kinds, limit) :
                     kinds \in {[i \in 1..Len(info) |->
                                   FindKind(info[i].path, current_rel_dir, pattern,
                                            extension, path_pattern, in_current_dir,
                                            recursive)]} }
    IN  IF info = EMPTY THEN Error("NotScanned")
        ELSE CHOOSE out \in
                { [status |-> "ok",
                   count |-> Len(results),
                   results |-> results,
                   has_more |-> Len(results) >= limit,
                   search_scope |-> IF in_current_dir THEN "current_directory"
                                    ELSE "entire_codebase",
                   recursive |-> recursive] : results \in found } : TRUE

FindFiles(pattern, extension, path_pattern, in_current_dir, recursive, limit) ==
    QueryReturns([name |-> "find", pattern |-> pattern, extension |-> extension,
                  path_pattern |-> path_pattern, in_current_dir |-> in_current_dir,
                  recursive |-> recursive, limit |-> limit],
                 FindFilesResult(all_files_info, current_directory, codebase_root,
                                 pattern, extension, path_pattern, in_current_dir,
                                 recursive, limit))

\* lines 311-316: the directory the argument names
SubtreeTarget(cwd, target_dir) ==
    IF target_dir = NONE THEN cwd
    ELSE IF ~IsAbs(target_dir) THEN Join(cwd, target_dir)
    ELSE target_dir

\* lines 334-341: the test a FileRecord passes to be part of the result
InSubtree(path, rel_path, max_depth) ==
    /\ path = rel_path \/ StartsWith(path, rel_path \o <<SEP>>)
    /\ max_depth = NoDepth \/ Count(RemoveAll(path, rel_path), SEP) <= max_depth

\* lines 300-359
ScanNestedResult(dirs, info, cwd, root, target_dir, max_depth) ==
    LET target == SubtreeTarget(cwd, target_dir)
        rel_path == Relpath(target, root)
        Kept(rec) == InSubtree(rec.path, rel_path, max_depth)
        matching_files == SelectSeq(info, Kept)
        nested_dirs == {Dirname(matching_files[i].path) : i \in 1..Len(matching_files)}
    IN  IF ~StartsWith(target, root) THEN Error("PathOutOfScope")
        ELSE IF ~IsDir(Range(dirs), target) THEN Error("NotADirectory")
        ELSE [status |-> "ok",
              target_directory |-> IF rel_path = <<DOT>> THEN <<SEP>> ELSE rel_path,
              file_count |-> Len(matching_files),
              directory_count |-> Cardinality(nested_dirs),
              max_depth |-> IF matching_files = EMPTY THEN 0
                            ELSE 0 - Count(rel_path, SEP),
              files |-> [i \in 1..Len(matching_files) |-> matching_files[i].path],
              directories |-> nested_dirs]

ScanNestedDirectories(target_dir, max_depth) ==
    QueryReturns([name |-> "scandir", arg |-> target_dir, max_depth |-> max_depth],
                 ScanNestedResult(fsDirs, all_files_info, current_directory,
                                  codebase_root, target_dir, max_depth))

\* str.splitlines for texts whose only line break is "\n"
RECURSIVE Splitlines(_)
Splitlines(content) ==
    IF content = EMPTY THEN << >>
    ELSE LET i == Find(content, NL)
         IN  IF i = 0 THEN <<content>>
             ELSE <<SubSeq(content, 1, i - 1)>>
                  \o Splitlines(SubSeq(content, i + 1, Len(content)))

\* str.strip for texts whose only white space is " "
RECURSIVE Strip(_)
Strip(s) ==
    IF s # EMPTY /\ Head(s) = " " THEN Strip(Tail(s))
    ELSE IF s # EMPTY /\ s[Len(s)] = " " THEN Strip(SubSeq(s, 1, Len(s) - 1))
    ELSE s

\* pattern.finditer(line) for the escaped query, ignoring case: the matches
\* from position pos (0-based) on, left to right and not overlapping
RECURSIVE FindIter(_, _, _)
FindIter(line, query, pos) ==
    IF query = EMPTY
    THEN [k \in 1..(Len(line) + 1) |-> [start |-> k - 1, end |-> k - 1]]
    ELSE IF pos + Len(query) > Len(line) THEN << >>
    ELSE IF Lower(SubSeq(line, pos + 1, pos + Len(query))) = Lower(query)
         THEN <<[start |-> pos, end |-> pos + Len(query)]>>
              \o FindIter(line, query, pos + Len(query))
    ELSE FindIter(line, query, pos + 1)

\* lines 803-810: the context of a match on line i (1-based, as enumerate
\* counts); j runs over range(start_line, i-1) and range(i, end_line), and
\* lines[j] of the code, a 0-based index, is lines[j + 1] here
ContextBefore(lines, i, context_lines) ==
    LET start_line == IF i - context_lines - 1 > 0 THEN i - context_lines - 1 ELSE 0
    IN  IF context_lines > 0
        THEN [k \in 1..(i - 1 - start_line) |->
                 <<start_line + k - 1, lines[start_line + k]>>]
        ELSE << >>

ContextAfter(lines, i, context_lines) ==
    LET end_line == IF Len(lines) < i + context_lines THEN Len(lines)
                    ELSE i + context_lines
    IN  IF context_lines > 0
        THEN [k \in 1..(end_line - i) |-> <<i + k - 1, lines[i + k]>>]
        ELSE << >>

\* lines 797-820: the matches of one file, line after line
RECURSIVE FileMatches(_, _, _, _)
FileMatches(lines, query, context_lines, i) ==
    IF i > Len(lines) THEN << >>
    ELSE LET found == FindIter(lines[i], query, 0)
         IN  [k \in 1..Len(found) |->
                 [line_number |-> i,
                  line_content |-> Strip(lines[i]),
                  start |-> found[k].start,
                  end |-> found[k].end,
                  context_before |-> ContextBefore(lines, i, context_lines),
                  context_after |-> ContextAfter(lines, i, context_lines)]]
             \o FileMatches(lines, query, context_lines, i + 1)

\* lines 776-788
SearchPaths(context, cwd, root, include_all_files) ==
    LET current_rel_dir == Relpath(cwd, root)
    IN  IF include_all_files \/ current_rel_dir = <<DOT>> THEN DOMAIN context
        ELSE {path \in DOMAIN context : StartsWith(path, current_rel_dir)}

\* the sum of the lengths of the sequences f[x], x in S
SumOfLengths(f, S) == Cardinality(UNION {{<<x, k>> : k \in 1..Len(f[x])} : x \in S})

\* the first n elements, matches[:10] of line 826
FirstOf(s, n) == IF Len(s) <= n THEN s ELSE SubSeq(s, 1, n)

\* lines 761-835; line 781 raises ValueError for an empty current directory
SearchResult(context, cwd, root, query, context_lines, include_all_files) ==
    IF ~include_all_files /\ cwd = EMPTY THEN [status |-> "raised"]
    ELSE
    CHOOSE out \in
      { LET hits == {path \in DOMAIN per : per[path] # << >>}
        IN  [status |-> "ok",
             total_matches |-> SumOfLengths(per, hits),
             files_with_matches |-> Cardinality(hits),
             results |-> [path \in hits |->
                            [language |-> context[path].language,
                             match_count |-> Len(per[path]),
                             matches |-> FirstOf(per[path], 10)]],
             search_scope |-> IF include_all_files THEN "entire_codebase"
                              ELSE "current_directory"] :
          per \in {[path \in SearchPaths(context, cwd, root, include_all_files) |->
                      FileMatches(Splitlines(context[path].content), query,
                                  context_lines, 1)]} } : TRUE

SearchInCodebase(query, context_lines, include_all_files) ==
    QueryReturns([name |-> "search", query |-> query, context_lines |-> context_lines,
                  include_all_files |-> include_all_files, from |-> current_directory],
                 SearchResult(codebase_context, current_directory, codebase_root,
                              query, context_lines, include_all_files))


-----------------------------------------------------------------------------
(* auto_scan_nested_directories *)

\* lines 1458-1463: the FileRecords whose directory is dir_path
DirFiles(info, dir_path) ==
    LET InDir(rec) == Dirname(rec.path) = dir_path
    IN  SelectSeq(info, InDir)

\* lines 1414-1473
AutoScanResult(structure, dirs, info, root, max_depth) ==
    LET all_dirs == {d \in DOMAIN structure :
                        max_depth = NoDepth \/ Count(d, SEP) <= max_depth}
        AbsDirPath(dir_path) == IF dir_path # EMPTY THEN Join(root, dir_path) ELSE root
        scanned == {d \in all_dirs : IsDir(Range(dirs), AbsDirPath(d))}
        Extensions(d) == {rec.extension : rec \in Range(DirFiles(info, d))} \ {EMPTY}
    IN  IF structure = EmptyMap THEN Error("NotScanned")
        ELSE [status |-> "ok",
              scanned_directories |-> Cardinality(scanned),
              total_directories |-> Cardinality(all_dirs),
              skipped_directories |-> Cardinality(all_dirs \ scanned),
              directory_stats |->
                  [d \in scanned |->
                      [file_count |-> Len(DirFiles(info, d)),
                       file_extensions |-> Extensions(d),
                       depth |-> IF d # EMPTY THEN Count(d, SEP) ELSE 0]],
              file_extensions |-> UNION {Extensions(d) : d \in scanned}]

AutoScanNestedDirectories(max_depth) ==
    QueryReturns([name |-> "autoscan", max_depth |-> max_depth],
                 AutoScanResult(directory_structure, fsDirs, all_files_info,
                                codebase_root, max_depth))

-----------------------------------------------------------------------------
(* The session *)

\* the I/O faults of the environment: none, or one of a failing stat, a
\* read-only file, a directory that cannot be listed
FaultWorlds ==
    { [statFail |-> {}, readOnly |-> {}, noList |-> {}],
      [statFail |-> {FileL}, readOnly |-> {}, noList |-> {}],
      [statFail |-> {}, readOnly |-> {FileA}, noList |-> {}],
      [statFail |-> {}, readOnly |-> {}, noList |-> {DirU}] }

Init ==
    /\ fsDirs = InitDirs
    /\ fsOrder = InitOrder
    /\ fsFiles = InitFiles
    /\ \E w \in FaultWorlds :
           /\ statFail = w.statFail
           /\ readOnly = w.readOnly
           /\ noList = w.noList
    /\ backups = {}
    /\ clock = 0
    /\ codebase_root = EMPTY
    /\ current_directory = EMPTY
    /\ all_files_info = EMPTY
    /\ codebase_context = EmptyMap
    /\ directory_structure = EmptyMap
    /\ pending_changes = EmptyMap
    /\ lastOp = [name |-> "init"]
    /\ lastResult = [status |-> "ok"]
    /\ writes = {}
    /\ made_dirs = {}

NextNav ==
    \/ \E root_dir \in ScanRoots, max_depth \in ScanDepths : Scan(root_dir, max_depth)
    \/ \E directory \in DirArgs : ListDirectory(directory)
    \/ \E directory \in DirArgs \ {NONE} : ChangeDirectory(directory)

SpecNav == Init /\ [][NextNav]_vars

\* the same session on a filesystem without I/O faults
InitNoFaults ==
    /\ Init
    /\ statFail = {}
    /\ readOnly = {}
    /\ noList = {}

SpecNavNoFaults == InitNoFaults /\ [][NextNav]_vars

NextEdit ==
    \/ Scan(DirP, NoDepth)
    \/ \E file_path \in FileArgs : GetFileContent(file_path)
    \/ \E file_path \in FileArgs : AnalyzeFile(file_path)
    \/ \E blocks \in Responses, serviceOk \in BOOLEAN : Suggest(blocks, serviceOk)
    \/ \E change_id \in ChangeIds : ApproveChanges(change_id)
    \/ \E change_id \in ChangeIds : RejectChanges(change_id)
    \/ Tick

SpecEdit == Init /\ [][NextEdit]_vars

\* responses of the model service for the session below: no file block at
\* all, a block for a loaded file, a block for a new file
PendingResponses ==
    { << >>,
      <<Block(<<"a", ".", "c">>, NewA)>>,
      <<Block(<<"k", ".", "c">>, NewZ)>> }

\* a session that makes, inspects, approves and rejects proposals
NextPending ==
    \/ Scan(DirP, NoDepth)
    \/ \E blocks \in PendingResponses, serviceOk \in BOOLEAN : Suggest(blocks, serviceOk)
    \/ \E change_id \in ChangeIds : ApproveChanges(change_id)
    \/ \E change_id \in ChangeIds : RejectChanges(change_id)
    \/ \E change_id \in ChangeIds : GetChangeDetails(change_id)
    \/ Tick

SpecPending == Init /\ [][NextPending]_vars

\* a session of queries over the catalog of /w
InitQuery ==
    /\ fsDirs = WideDirs
    /\ fsOrder = WideOrder
    /\ fsFiles = WideFiles
    /\ statFail = {}
    /\ readOnly = {}
    /\ noList = {}
    /\ backups = {}
    /\ clock = 0
    /\ codebase_root = EMPTY
    /\ current_directory = EMPTY
    /\ all_files_info = EMPTY
    /\ codebase_context = EmptyMap
    /\ directory_structure = EmptyMap
    /\ pending_changes = EmptyMap
    /\ lastOp = [name |-> "init"]
    /\ lastResult = [status |-> "ok"]
    /\ writes = {}
    /\ made_dirs = {}

QueryDirs == {<<"g">>, DirW}
ExtArgs == {<<"c">>, <<"C">>, <<"h">>, <<DOT, "c">>, <<"z">>}
PatternArgs == {NONE, <<"g", "1", "*">>}
PathPatternArgs == {NONE, <<"g", SEP, "*">>}
LimitArgs == {0, 1, 2, DefaultLimit}
TargetArgs == {NONE, <<"g">>, <<DOT>>, DirW}
QueryArgs == {<<"x">>, <<"t">>, <<"O">>}
ContextArgs == {0, 1, 2}

\* the catalog is scanned once, at the start; the calls that resolve a path
\* against the current directory are made after the scan
NextQuery ==
    \/ codebase_root = EMPTY /\ Scan(DirW, NoDepth)
    \/ codebase_root # EMPTY /\ \E directory \in QueryDirs : ChangeDirectory(directory)
    \/ \E extension \in ExtArgs : FindAllFilesByExtension(extension)
    \/ /\ codebase_root # EMPTY
       /\ \E pattern \in PatternArgs, extension \in {NONE, <<"c">>, <<"h">>},
             path_pattern \in PathPatternArgs, in_current_dir \in BOOLEAN,
             recursive \in BOOLEAN, limit \in LimitArgs :
              FindFiles(pattern, extension, path_pattern, in_current_dir, recursive, limit)
    \/ /\ codebase_root # EMPTY
       /\ \E target_dir \in TargetArgs, max_depth \in {NoDepth, 0} :
              ScanNestedDirectories(target_dir, max_depth)
    \/ /\ codebase_root # EMPTY
       /\ \E query \in QueryArgs, context_lines \in ContextArgs,
             include_all_files \in BOOLEAN :
              SearchInCodebase(query, context_lines, include_all_files)

SpecQuery == InitQuery /\ [][NextQuery]_vars

\* a session on /p or on its empty directory /p/u in which every operation
\* that needs the catalog may be called at any time, before a scan too
SessionRoots == {DirP, DirU}
SessionDirs == {NONE, <<"s">>, <<"t">>, DOTDOT}
SessionTargets == {NONE, <<"s">>, <<"t">>, DirS}
SessionPatterns == {<<"*">>, <<"z", "*">>}
SessionExts == {<<"c">>, <<"z">>}
SessionFiles == {<<"a", ".", "c">>, <<"c", ".", "o">>}

NextSession ==
    \/ \E root_dir \in SessionRoots : Scan(root_dir, NoDepth)
    \/ \E directory \in SessionDirs : ListDirectory(directory)
    \/ \E extension \in SessionExts : FindAllFilesByExtension(extension)
    \/ \E pattern \in SessionPatterns, in_current_dir \in BOOLEAN, recursive \in BOOLEAN :
           FindFiles(pattern, NONE, NONE, in_current_dir, recursive, DefaultLimit)
    \/ \E target_dir \in SessionTargets : ScanNestedDirectories(target_dir, NoDepth)
    \/ \E include_all_files \in BOOLEAN : SearchInCodebase(<<"x">>, 0, include_all_files)
    \/ \E max_depth \in {NoDepth, 0} : AutoScanNestedDirectories(max_depth)
    \/ \E file_path \in SessionFiles : GetFileContent(file_path)
    \/ \E blocks \in PendingResponses, serviceOk \in BOOLEAN : Suggest(blocks, serviceOk)

SpecSession == InitNoFaults /\ [][NextSession]_vars

\* responses of the model service that name files of the catalog which were
\* not loaded (the oversized m.c, the object file s/c.o) and new files
OverwriteResponses ==
    { <<Block(<<"m", ".", "c">>, NewZ)>>,
      <<Block(<<"s", "/", "c", ".", "o">>, NewZ)>>,
      <<Block(<<"n", "/", "z", ".", "c">>, NewZ), Block(<<"k", ".", "c">>, NewZ)>> }

\* a session that approves such proposals
NextOverwrite ==
    \/ Scan(DirP, NoDepth)
    \/ \E blocks \in OverwriteResponses, serviceOk \in BOOLEAN : Suggest(blocks, serviceOk)
    \/ \E change_id \in ChangeIds : ApproveChanges(change_id)
    \/ Tick

SpecOverwrite == InitNoFaults /\ [][NextOverwrite]_vars

-----------------------------------------------------------------------------
(* Properties *)

DirSet == Range(fsDirs)

ListReturned(status) == lastOp.name = "list" /\ lastResult.status = status

\* approve_changes ran on an id that was pending
Approved == lastOp.name = "approve" /\ "entries" \in DOMAIN lastOp

\* the canonical path a proposal's path text names
EntryTarget(path) == Resolve(DirSet, Join(codebase_root, path))

\* C1: after a successful list/changeDirectory the current directory is the
\* catalog root or a descendant of it, and list("..") issued at the catalog
\* root leaves the current directory at the catalog root.
C1_NavigationStaysInRoot ==
    ListReturned("ok") =>
        /\ Within(codebase_root, Resolve(DirSet, current_directory))
        /\ (lastOp.arg = DOTDOT /\ lastOp.from = codebase_root)
               => current_directory = codebase_root

\* C2: whenever list/changeDirectory returns an error payload the current
\* directory is exactly what it was before the call.
C2_ErrorKeepsCursor ==
    ListReturned("error") => current_directory = lastOp.from

\* C3: files are written only by approve, and every path approve writes or
\* creates lies under the catalog root.
C3_WritesUnderRoot ==
    /\ lastOp.name # "approve" => (writes = {} /\ made_dirs = {})
    /\ \A w \in writes \cup made_dirs : Within(codebase_root, w)

\* the files scan(root, ignoreDirs, maxDepth) is specified to record: under
\* root, no ignored directory on the way, directory depth at most maxDepth
DirDepth(rel_file) == Len(NonEmptyComps(Dirname(rel_file)))

SpecifiedFiles(root, ignore_dirs, max_depth) ==
    { f \in DOMAIN fsFiles :
        /\ Within(root, f)
        /\ Range(NonEmptyComps(Dirname(Relpath(f, root)))) \cap ignore_dirs = {}
        /\ (max_depth = NoDepth \/ DirDepth(Relpath(f, root)) <= max_depth) }

\* C4: after a scan the FileRecord paths are exactly the files under root
\* that are in no ignored directory and in no directory pruned by maxDepth.
C4_FileRecordsExact ==
    lastOp.name = "scan" =>
        Keys(all_files_info) =
            { Relpath(f, codebase_root) :
                f \in SpecifiedFiles(codebase_root, IgnoreDirs, lastOp.max_depth) }

Recognized(f) == Lower(SplitextExt(Basename(f))) \in TextExtensions

\* the ContentRecord paths of the same scan in a file system where every
\* file other than f has the given size
ContentKeysWithOtherSizes(f, size) ==
    LET others == [g \in DOMAIN fsFiles |->
                      IF g = f THEN fsFiles[g] ELSE [fsFiles[g] EXCEPT !.size = size]]
        todo == WalkFiles(fsDirs, fsOrder, noList, codebase_root, IgnoreDirs,
                          lastOp.max_depth)
    IN  DOMAIN ScanLoop(others, statFail, codebase_root, todo, ScanStart).file_contents

\* C5: after a scan a file found by the traversal has a ContentRecord iff its
\* extension is recognized and its own size is at most the cap; a recognized
\* file over the cap has a FileRecord and no ContentRecord; and whether a
\* file has a ContentRecord is the same whatever the sizes of the other
\* files are, also for a file whose size could not be read.
C5_ContentIffRecognizedAndSmall ==
    lastOp.name = "scan" =>
        \A f \in Range(WalkFiles(fsDirs, fsOrder, noList, codebase_root, IgnoreDirs,
                                 lastOp.max_depth)) :
            LET rel == Relpath(f, codebase_root)
            IN  /\ f \notin statFail =>
                    /\ rel \in DOMAIN codebase_context
                           <=> (Recognized(f) /\ fsFiles[f].size <= MaxFileSize)
                    /\ (Recognized(f) /\ fsFiles[f].size > MaxFileSize)
                           => (rel \in Keys(all_files_info)
                               /\ rel \notin DOMAIN codebase_context)
                /\ \A size \in {1, MaxFileSize + 1} :
                       rel \in DOMAIN codebase_context
                           <=> rel \in ContentKeysWithOtherSizes(f, size)

\* C6: every ContentRecord path is also a FileRecord path.
C6_ContentKeysAreFileKeys == DOMAIN codebase_context \subseteq Keys(all_files_info)

Reported(result) ==
    { EntryTarget(result.modified_files[i]) : i \in 1..Len(result.modified_files) }
    \cup { EntryTarget(result.created_files[i]) : i \in 1..Len(result.created_files) }

\* C7: when an approve call fails on one entry and succeeds on others, the
\* result lists exactly the files written in modified_files/created_files and
\* one error string per failed entry: entries = |modified| + |created| +
\* |errors|, and no file is written without being reported.
C7_ApproveReportsEveryWrite ==
    (Approved /\ ~lastResult.success /\ writes # {}) =>
        /\ "errors" \in DOMAIN lastResult
        /\ writes = Reported(lastResult)
        /\ lastOp.entries = Len(lastResult.modified_files)
                            + Len(lastResult.created_files) + Len(lastResult.errors)

\* C8: a failure while applying one entry, a failure to create the parent
\* directories included, is collected as an individual error string and
\* every remaining entry of the proposal is still attempted.
C8_EveryEntryAttempted ==
    (Approved /\ ~lastOp.backup_raised) =>
        /\ lastOp.attempted = lastOp.entries
        /\ "errors" \in DOMAIN lastResult

\* C9: after approve(id) on a pending id, without a per-file error the id
\* is no longer pending and the result reports success with the backup
\* location; with a per-file error the id is still pending with unchanged
\* content and the result reports failure with the per-file errors.
C9_ApproveOutcome ==
    (Approved /\ ~lastOp.backup_raised) =>
        IF "errors" \in DOMAIN lastResult /\ lastResult.errors = EMPTY
        THEN /\ lastOp.arg \notin DOMAIN pending_changes
             /\ lastResult.success
             /\ lastResult.backup_dir \in backups
        ELSE /\ lastOp.arg \in DOMAIN pending_changes
             /\ pending_changes[lastOp.arg] = lastOp.proposal
             /\ ~lastResult.success
             /\ "errors" \in DOMAIN lastResult
             /\ lastResult.errors # EMPTY

\* C10: if creating the backup copy fails during approve(id), no file is
\* written or created, the FileRecord and ContentRecord maps are unchanged,
\* the proposal stays pending, and the result is an error payload.
C10_BackupFailureAppliesNothing ==
    [][ (lastOp'.name = "approve" /\ "entries" \in DOMAIN lastOp'
         /\ lastOp'.backup_raised)
        => /\ writes' = {} /\ made_dirs' = {}
           /\ UNCHANGED <<fsDirs, fsOrder, fsFiles>>
           /\ UNCHANGED <<all_files_info, codebase_context>>
           /\ UNCHANGED pending_changes
           /\ lastOp'.arg \in DOMAIN pending_changes'
           /\ lastResult'.status = "error" ]_vars

\* a backup failed for a proposal that has entries to apply
C10_Witness ==
    /\ Approved
    /\ lastOp.backup_raised
    /\ lastOp.entries > 0
    /\ lastResult.status = "error"

\* C11: every successful suggest adds one proposal to the pending store, so a
\* new proposal never takes the id of a pending one, not even within the
\* same clock second.
C11_SuggestAddsOneProposal ==
    [][ (lastOp'.name = "suggest" /\ lastResult'.status = "ok")
        => Cardinality(DOMAIN pending_changes')
               = Cardinality(DOMAIN pending_changes) + 1 ]_vars

\* C12: approve, reject and details on an id that is not pending return a
\* NotFound error payload and change neither the pending store, nor the
\* FileRecord/ContentRecord maps, nor the file system, nor the current
\* directory.
C12_MissingIdChangesNothing ==
    [][ (lastOp'.name \in {"approve", "reject", "details"}
         /\ lastOp'.arg \notin DOMAIN pending_changes)
        => /\ lastResult'.status = "error"
           /\ lastResult'.error = "NotFound"
           /\ UNCHANGED pending_changes
           /\ UNCHANGED <<all_files_info, codebase_context>>
           /\ UNCHANGED <<fsDirs, fsOrder, fsFiles, backups>>
           /\ UNCHANGED <<codebase_root, current_directory>> ]_vars

\* an id that was approved with success at the second it was made is asked
\* for again
C12_Witness ==
    /\ lastOp.name \in {"approve", "reject", "details"}
    /\ lastResult = [status |-> "error", error |-> "NotFound"]
    /\ lastOp.arg \in backups
    /\ lastOp.arg \notin DOMAIN pending_changes

\* C13: approve on a pending proposal without any entry does not report
\* success and does not remove the proposal.
C13_EmptyProposalNotApplied ==
    (Approved /\ lastOp.entries = 0) =>
        /\ ~lastResult.success
        /\ lastOp.arg \in DOMAIN pending_changes

\* the FileRecord of a relative path
InfoOf(relative_path) ==
    LET i == CHOOSE k \in 1..Len(all_files_info) : all_files_info[k].path = relative_path
    IN  all_files_info[i]

\* C14: after approve applied a modify-entry for p, the ContentRecord of p
\* has the content, size and line count of the new content and the
\* FileRecord of p has the size of the new content.
C14_ModifyUpdatesBothRecords ==
    (Approved /\ "modified_files" \in DOMAIN lastResult) =>
        \A i \in 1..Len(lastOp.proposal.proposed_changes.files_to_modify) :
            LET entry == lastOp.proposal.proposed_changes.files_to_modify[i]
                p == entry.path
            IN  p \in Range(lastResult.modified_files) =>
                   /\ codebase_context[p].content = entry.new_content
                   /\ codebase_context[p].size = Len(entry.new_content)
                   /\ codebase_context[p].lines = SplitlinesLen(entry.new_content)
                   /\ p \in Keys(all_files_info)
                   /\ InfoOf(p).size = Len(entry.new_content)

PathsOf(records) == {records[i].path : i \in 1..Len(records)}

\* C15: findByExtension(ext) returns exactly the FileRecords whose extension
\* equals ext ignoring case (ext taken without a leading dot), and every
\* path it returns is in the result of findFiles(extension=ext) called with
\* default arguments.
C15_FindByExtensionRoundTrip ==
    (lastOp.name = "findext" /\ lastResult.status = "ok") =>
        LET ext == IF StartsWith(lastOp.arg, <<DOT>>) THEN Tail(lastOp.arg)
                   ELSE lastOp.arg
            again == FindFilesResult(all_files_info, current_directory, codebase_root,
                                     NONE, lastOp.arg, NONE, FALSE, TRUE, DefaultLimit)
        IN  /\ PathsOf(lastResult.files)
                   = { all_files_info[i].path : i \in
                         {k \in 1..Len(all_files_info) :
                             Lower(all_files_info[k].extension) = Lower(ext)} }
            /\ PathsOf(lastResult.files) \subseteq PathsOf(again.results)

\* the FileRecords that satisfy the filters of the last findFiles call, in
\* catalog order
MatchingRecords ==
    LET rel == Relpath(current_directory, codebase_root)
        current_rel_dir == IF rel = <<DOT>> THEN EMPTY ELSE rel
        Matching(rec) ==
            FindKind(rec.path, current_rel_dir, lastOp.pattern, lastOp.extension,
                     lastOp.path_pattern, lastOp.in_current_dir, lastOp.recursive)
                = "match"
    IN  SelectSeq(all_files_info, Matching)

\* C16: findFiles returns the first min(limit, m) of the m FileRecords that
\* satisfy its filters, never more than limit, and has_more is true exactly
\* when m > limit.
C16_FindFilesLimit ==
    (lastOp.name = "find" /\ lastResult.status = "ok") =>
        LET m == Len(MatchingRecords)
            n == IF lastOp.limit < m THEN lastOp.limit ELSE m
        IN  /\ Len(lastResult.results) <= lastOp.limit
            /\ [i \in 1..Len(lastResult.results) |-> lastResult.results[i].path]
                   = [i \in 1..n |-> MatchingRecords[i].path]
            /\ lastResult.has_more <=> m > lastOp.limit

\* C17: search with includeAllFiles = false and the current directory d
\* different from the root reports matches only from files in d or below.
C17_SearchStaysInDirectory ==
    (/\ lastOp.name = "search"
     /\ ~lastOp.include_all_files
     /\ current_directory # codebase_root) =>
        \A path \in DOMAIN lastResult.results :
            StartsWith(path, Relpath(current_directory, codebase_root) \o <<SEP>>)

\* C18: a match reported with contextLines = c > 0 on line n of a file with
\* L lines has context_before = the pairs (k, line k) for k = max(1, n-c)
\* .. n-1 and context_after = the pairs (k, line k) for k = n+1 ..
\* min(L, n+c), with 1-based line numbers k.
C18_ContextLines ==
    (lastOp.name = "search" /\ lastOp.context_lines > 0) =>
        \A path \in DOMAIN lastResult.results :
            \A i \in 1..Len(lastResult.results[path].matches) :
                LET match == lastResult.results[path].matches[i]
                    lines == Splitlines(codebase_context[path].content)
                    n == match.line_number
                    c == lastOp.context_lines
                    lo == IF n - c > 1 THEN n - c ELSE 1
                    hi == IF n + c < Len(lines) THEN n + c ELSE Len(lines)
                IN  /\ match.context_before
                           = [k \in 1..(n - lo) |-> <<lo + k - 1, lines[lo + k - 1]>>]
                    /\ match.context_after
                           = [k \in 1..(hi - n) |-> <<n + k, lines[n + k]>>]

\* what the claim compares of a search over the whole catalog: the total,
\* and for every file its match count and the line numbers of its matches
SearchSummary(query) ==
    LET found == SearchResult(codebase_context, current_directory, codebase_root,
                              query, 0, TRUE)
    IN  [total_matches |-> found.total_matches,
         files |-> [path \in DOMAIN found.results |->
                      [match_count |-> found.results[path].match_count,
                       line_numbers |->
                           [i \in 1..Len(found.results[path].matches) |->
                               found.results[path].matches[i].line_number]]]]

\* C19: a search over the whole catalog returns the same total, per-file
\* match counts and line numbers before and after every operation other
\* than a scan or an approval.
C19_SearchIdempotent ==
    [][ lastOp'.name \notin {"scan", "approve"}
        => SearchSummary(<<"x">>)' = SearchSummary(<<"x">>) ]_vars

\* C20: scanSubtree(target) without maxDepth returns exactly the FileRecords
\* whose path lies in the target directory or below it, every FileRecord
\* when the target is the catalog root.
C20_SubtreeExact ==
    (/\ lastOp.name = "scandir"
     /\ lastOp.max_depth = NoDepth
     /\ lastResult.status = "ok") =>
        LET target == Normpath(SubtreeTarget(current_directory, lastOp.arg))
            rel == Relpath(target, codebase_root)
        IN  Range(lastResult.files)
               = { all_files_info[i].path : i \in
                     {k \in 1..Len(all_files_info) :
                         \/ target = codebase_root
                         \/ StartsWith(all_files_info[k].path, rel \o <<SEP>>)} }

\* the operations that answer from the catalog without changing it
QueryNames == {"find", "findext", "search", "scandir", "autoscan"}

\* C21: a call of findFiles, findByExtension, search, scanSubtree or
\* autoScanAllDirectories leaves the FileRecord map, the ContentRecord map,
\* the DirectoryTree, the current directory and the pending proposals as
\* they were before the call.
C21_QueriesChangeNothing ==
    [][lastOp'.name \in QueryNames
          => UNCHANGED <<all_files_info, codebase_context, directory_structure,
                         current_directory, pending_changes>>]_vars

\* autoScanAllDirectories answered in a session that has a catalog, a pending
\* proposal and a cursor below the root
C21_Witness ==
    /\ lastOp.name = "autoscan"
    /\ lastResult.status = "ok"
    /\ all_files_info # EMPTY
    /\ pending_changes # EmptyMap
    /\ current_directory # codebase_root

\* the operations that need the catalog
CatalogNames == QueryNames \cup {"list", "viewfile", "suggest"}

\* C22: before any scan, every operation that needs the catalog returns the
\* NotScanned error payload.
C22_NotScannedBeforeScan ==
    (codebase_root = EMPTY /\ lastOp.name \in CatalogNames)
        => lastResult = Error("NotScanned")

\* no FileRecord passes the filters of the last findFiles or findByExtension
NothingMatches ==
    \A i \in 1..Len(all_files_info) :
        IF lastOp.name = "findext"
        THEN Lower(all_files_info[i].extension) # Lower(lastOp.arg)
        ELSE \/ Given(lastOp.pattern)
                /\ ~Fnmatch(Basename(all_files_info[i].path), lastOp.pattern)
             \/ Given(lastOp.extension)
                /\ ~EndsWith(Lower(all_files_info[i].path),
                             <<DOT>> \o Lower(lastOp.extension))

\* C23: after a scan, findFiles and findByExtension answer a query that
\* nothing matches with a success payload of count 0, also when the scanned
\* root holds no file.
C23_EmptyResultIsSuccess ==
    (codebase_root # EMPTY /\ lastOp.name \in {"find", "findext"} /\ NothingMatches)
        => (lastResult.status = "ok" /\ lastResult.count = 0)

\* the directory levels between the directory rel_path and the file path
LevelsBelow(path, rel_path) ==
    Count(path, SEP) - (IF rel_path = <<SEP>> THEN 0 ELSE Count(rel_path, SEP) + 1)

\* C25: the max_depth that scanSubtree returns is the largest number of
\* directory levels between the target and a returned file, and is not
\* negative.
C25_SubtreeMaxDepth ==
    (lastOp.name = "scandir" /\ lastResult.status = "ok")
        => /\ lastResult.max_depth >= 0
           /\ lastResult.max_depth =
                  MaxOf({LevelsBelow(lastResult.files[i], lastResult.target_directory) :
                            i \in 1..Len(lastResult.files)}, 0)

\* the paths of the FileRecords that pass the name filters of the last
\* findFiles call and lie in the current directory or anywhere below it
ScopedMatches ==
    LET rel == Relpath(current_directory, codebase_root)
        Below(path) == rel = <<DOT>> \/ StartsWith(path, rel \o <<SEP>>)
        Passes(path) ==
            FindKind(path, EMPTY, lastOp.pattern, lastOp.extension,
                     lastOp.path_pattern, FALSE, TRUE) = "match"
    IN  {all_files_info[i].path : i \in
            {k \in 1..Len(all_files_info) :
                Passes(all_files_info[k].path) /\ Below(all_files_info[k].path)}}

\* C24: findFiles scoped to the current directory with recursive = true
\* returns exactly the matching FileRecords in the current directory or
\* below it (all matching FileRecords when the cursor is at the root), and
\* its result contains the result of the same call with recursive = false;
\* stated for calls whose limit is larger than the number of such records.
C24_RecursiveScope ==
    (/\ lastOp.name = "find"
     /\ lastResult.status = "ok"
     /\ lastOp.in_current_dir
     /\ lastOp.recursive
     /\ Cardinality(ScopedMatches) < lastOp.limit)
        => LET flat == FindFilesResult(all_files_info, current_directory, codebase_root,
                                       lastOp.pattern, lastOp.extension,
                                       lastOp.path_pattern, TRUE, FALSE, lastOp.limit)
           IN  /\ PathsOf(lastResult.results) = ScopedMatches
               /\ PathsOf(flat.results) \subseteq PathsOf(lastResult.results)

\* C26: every ContentRecord with non-empty content, whether made by scan,
\* by lazy load or by approval, has lineCount = number of line breaks + 1.
C26_LineCount ==
    \A p \in DOMAIN codebase_context :
        codebase_context[p].content # EMPTY
            => codebase_context[p].lines = Count(codebase_context[p].content, NL) + 1

\* the sum of the file_count fields of the per-directory statistics
SumOfCounts(stats) ==
    Cardinality(UNION {{<<d, k>> : k \in 1..stats[d].file_count} : d \in DOMAIN stats})

\* the relative path of the file called name in the directory node d
ChildPath(d, name) == IF d = EMPTY THEN name ELSE d \o <<SEP>> \o name

\* C27: after a scan, and after approvals, the DirectoryTree and the
\* FileCatalog agree: the parent directory of every FileRecord is a node
\* that lists the file, every file a node lists is a FileRecord, and the
\* per-directory file counts of autoScanAllDirectories without maxDepth sum
\* to the number of FileRecords.
C27_TreeAgreesWithCatalog ==
    codebase_root # EMPTY =>
        /\ \A i \in 1..Len(all_files_info) :
              LET path == all_files_info[i].path
              IN  /\ Dirname(path) \in DOMAIN directory_structure
                  /\ Basename(path) \in Range(directory_structure[Dirname(path)].files)
        /\ \A d \in DOMAIN directory_structure :
              \A name \in Range(directory_structure[d].files) :
                  ChildPath(d, name) \in Keys(all_files_info)
        /\ SumOfCounts(AutoScanResult(directory_structure, fsDirs, all_files_info,
                                      codebase_root, NoDepth).directory_stats)
               = Len(all_files_info)

\* C28: a create-entry that approve applies names a path that had no
\* FileRecord before the call.
C28_CreateOnlyNewPaths ==
    [][(lastOp'.name = "approve" /\ "created_files" \in DOMAIN lastResult')
          => \A i \in 1..Len(lastResult'.created_files) :
                lastResult'.created_files[i] \notin Keys(all_files_info)]_vars

\* C29: when approve applies the first modify-entry of a proposal, the
\* entry's stored originalContent is the content the ContentRecord of that
\* path had immediately before the write.
C29_OriginalIsCurrent ==
    [][(/\ lastOp'.name = "approve"
        /\ "entries" \in DOMAIN lastOp'
        /\ ~lastOp'.backup_raised
        /\ lastOp'.proposal.proposed_changes.files_to_modify # EMPTY)
          => LET entry == lastOp'.proposal.proposed_changes.files_to_modify[1]
             IN  (/\ entry.path \in DOMAIN codebase_context
                  /\ EntryTarget(entry.path) \in writes')
                     => entry.original_content = codebase_context[entry.path].content]_vars

\* C30: in the DirectoryTree of a scan the root node '' has depth 0, and
\* every other node has a parent that is a node of the tree with a depth one
\* less than its own, so no other node has depth 0.
C30_TreeDepths ==
    directory_structure # EmptyMap =>
        /\ EMPTY \in DOMAIN directory_structure
        /\ directory_structure[EMPTY].depth = 0
        /\ \A d \in DOMAIN directory_structure \ {EMPTY} :
              /\ directory_structure[d].parent \in DOMAIN directory_structure
              /\ directory_structure[directory_structure[d].parent].depth
                     = directory_structure[d].depth - 1
              /\ directory_structure[d].depth # 0


=============================================================================
